---- MODULE Spec2Model ----
(***************************************************************************)
(* TinySpeech: the chapter segmenter (pipeline.generate_chapters), the     *)
(* time formatter (pipeline.format_timestamp), the orchestrator            *)
(* (pipeline.process_audio) and the form handlers (app.process_audio_file, *)
(* app.handle_process).                                                    *)
(*                                                                         *)
(* Strings are sequences of tokens.  A token is a word <<i, k>> (the k-th  *)
(* word of segment i), the whitespace token SP, or the ELLIPSIS "...".     *)
(* Times are whole seconds; the float comparison                           *)
(*     end >= current_chapter_start + total_duration / max_chapters        *)
(* is evaluated exactly by multiplying both sides by max_chapters.         *)
(***************************************************************************)
EXTENDS Integers, Sequences, FiniteSets, TLC

\* ---------------------------------------------------------------- bounds
MaxSegs == 3
MaxWords == 3
MaxTime == 4
MaxN == 3
MaxSeconds == 6100
MaxClock == 1
MaxRuns == 2

\* ------------------------------------------------------ program constants
DefaultMaxChapters == 8
TitleWords == 6
SecondsPerMinute == 60

\* ---------------------------------------------------------------- strings
SP == <<0, 0>>
ELLIPSIS == <<0, 1>>

RECURSIVE Join(_)
Join(ws) ==
  IF Len(ws) = 0 THEN <<>>
  ELSE IF Len(ws) = 1 THEN <<ws[1]>>
  ELSE <<ws[1], SP>> \o Join(Tail(ws))

RECURSIVE LStrip(_)
LStrip(s) ==
  IF Len(s) > 0 /\ s[1] = SP THEN LStrip(Tail(s)) ELSE s

RECURSIVE RStrip(_)
RStrip(s) ==
  IF Len(s) > 0 /\ s[Len(s)] = SP THEN RStrip(SubSeq(s, 1, Len(s) - 1)) ELSE s

Strip(s) == RStrip(LStrip(s))

Split(s) == SelectSeq(s, LAMBDA t : t # SP)

FirstN(ws, n) == SubSeq(ws, 1, IF Len(ws) < n THEN Len(ws) ELSE n)

\* the text of segment i when it has k words, as transcribe_audio leaves it
SegText(i, k) == Join([j \in 1..k |-> <<i, j>>])

VARIABLES segments, max_chapters, idx, chapters, current_chapter_start,
          chapter_text, gpc, fmt_seconds, fmt_result,
          clock, outputs, writes, runs, returned,
          caller, audio_path, path_exists, ppc, exc, p_segments, p_chapters,
          summary, gemini_raised, report, output_path, result,
          audio_file, hpc, handler_result, notifications

cvars == <<segments, max_chapters, idx, chapters, current_chapter_start,
           chapter_text, gpc>>
fvars == <<fmt_seconds, fmt_result>>
pvars == <<clock, outputs, writes, runs, returned,
           caller, audio_path, path_exists, ppc, exc, p_segments, p_chapters,
           summary, gemini_raised, report, output_path, result,
           audio_file, hpc, handler_result, notifications>>
vars == <<cvars, fvars, pvars>>

\* ------------------------------------------------------- generate_chapters
BoundaryReached_Strict(seg_end, start, total, n) ==
  seg_end * n > start * n + total

\* segment['end'] >= current_chapter_start + chapter_duration, scaled by n
BoundaryReached(seg_end, start, total, n) ==
  seg_end * n >= start * n + total

ShouldClose_OffByOne(seg_end, start, total, n, emitted, i, nsegs) ==
  \/ (BoundaryReached(seg_end, start, total, n) /\ emitted < n)
  \/ i = nsegs

ShouldClose(seg_end, start, total, n, emitted, i, nsegs) ==
  \/ (BoundaryReached(seg_end, start, total, n) /\ emitted < n - 1)
  \/ i = nsegs

MakeTitle(text) ==
  LET words == FirstN(Split(Strip(text)), TitleWords)
  IN  Join(words) \o (IF Len(words) = TitleWords THEN <<ELLIPSIS>> ELSE <<>>)

MakeChapter(start, seg_end, text) ==
  [start_time |-> start, end_time |-> seg_end,
   title |-> MakeTitle(text), text |-> Strip(text)]

LoopBody_KeepStart(w, segs, n, i) ==
  LET text == w.chapter_text \o segs[i].text \o <<SP>>
  IN  IF ShouldClose(segs[i].end, w.current_chapter_start,
                     segs[Len(segs)].end, n, Len(w.chapters), i, Len(segs))
      THEN [chapters |-> Append(w.chapters,
                           MakeChapter(w.current_chapter_start, segs[i].end, text)),
            current_chapter_start |-> w.current_chapter_start,
            chapter_text |-> <<>>]
      ELSE [chapters |-> w.chapters,
            current_chapter_start |-> w.current_chapter_start,
            chapter_text |-> text]

LoopBody_KeepText(w, segs, n, i) ==
  LET text == w.chapter_text \o segs[i].text \o <<SP>>
  IN  IF ShouldClose(segs[i].end, w.current_chapter_start,
                     segs[Len(segs)].end, n, Len(w.chapters), i, Len(segs))
      THEN [chapters |-> Append(w.chapters,
                           MakeChapter(w.current_chapter_start, segs[i].end, text)),
            current_chapter_start |-> segs[i].end,
            chapter_text |-> text]
      ELSE [chapters |-> w.chapters,
            current_chapter_start |-> w.current_chapter_start,
            chapter_text |-> text]

\* one iteration of the for loop, on the loop state w
LoopBody(w, segs, n, i) ==
  LET text == w.chapter_text \o segs[i].text \o <<SP>>
  IN  IF ShouldClose(segs[i].end, w.current_chapter_start,
                     segs[Len(segs)].end, n, Len(w.chapters), i, Len(segs))
      THEN [chapters |-> Append(w.chapters,
                           MakeChapter(w.current_chapter_start, segs[i].end, text)),
            current_chapter_start |-> segs[i].end,
            chapter_text |-> <<>>]
      ELSE [chapters |-> w.chapters,
            current_chapter_start |-> w.current_chapter_start,
            chapter_text |-> text]

\* ------------------------------------------------------------------ inputs
Times == 0..MaxTime

RoundTripSegments ==
  << [start |-> 0,  end |-> 10, text |-> SegText(1, 1)],
     [start |-> 10, end |-> 20, text |-> SegText(2, 2)],
     [start |-> 20, end |-> 30, text |-> SegText(3, 3)] >>

\* ordered, contiguous segment lists: ends non-decreasing, start = previous end
MkSegments(ends, wc) ==
  [i \in 1..Len(ends) |->
     [start |-> IF i = 1 THEN 0 ELSE ends[i - 1],
      end |-> ends[i],
      text |-> SegText(i, wc[i])]]

Ordered(ends) == \A i \in 1..(Len(ends) - 1) : ends[i] <= ends[i + 1]

MaxChapterChoices == (1..MaxN) \cup {DefaultMaxChapters}

ChapterInputs ==
  /\ \/ \E n \in 0..MaxSegs :
          \E ends \in [1..n -> Times] : \E wc \in [1..n -> 0..MaxWords] :
             /\ Ordered(ends)
             /\ segments = MkSegments(ends, wc)
     \/ segments = RoundTripSegments
  /\ max_chapters \in MaxChapterChoices
  /\ idx = 0
  /\ chapters = <<>>
  /\ current_chapter_start = 0
  /\ chapter_text = <<>>
  /\ gpc = "entry"

IdleChapters ==
  /\ segments = <<>>
  /\ max_chapters = DefaultMaxChapters
  /\ idx = 0
  /\ chapters = <<>>
  /\ current_chapter_start = 0
  /\ chapter_text = <<>>
  /\ gpc = "entry"

IdleFormat ==
  /\ fmt_seconds = 0
  /\ fmt_result = <<>>

\* ---------------------------------------------------------- format_timestamp
DigitChars == <<"0", "1", "2", "3", "4", "5", "6", "7", "8", "9">>

RECURSIVE Decimal(_)
Decimal(n) ==
  IF n < 10 THEN <<DigitChars[n + 1]>>
  ELSE Decimal(n \div 10) \o <<DigitChars[(n % 10) + 1]>>

Pad2_NoPad(n) == Decimal(n)

\* the format spec :02d
Pad2(n) ==
  IF Len(Decimal(n)) < 2 THEN <<"0">> \o Decimal(n) ELSE Decimal(n)

format_timestamp(seconds) ==
  LET minutes == seconds \div SecondsPerMinute
      secs == seconds % SecondsPerMinute
  IN  Pad2(minutes) \o <<":">> \o Pad2(secs)

\* ------------------------------------------- generate_chapters, as a whole
RECURSIVE Walk(_, _, _, _)
Walk(w, segs, n, i) ==
  IF i > Len(segs) THEN w.chapters
  ELSE Walk(LoopBody(w, segs, n, i), segs, n, i + 1)

generate_chapters(segs, n) ==
  IF Len(segs) = 0 THEN <<>>
  ELSE Walk([chapters |-> <<>>, current_chapter_start |-> 0,
             chapter_text |-> <<>>], segs, n, 1)

\* ------------------------------------------------------------ orchestrator
None == <<>>
Unknown == <<"Unknown">>
LlmSummary == "response.text"
FallbackSummary == "Summary generation failed. Please check your Gemini API key."
TempBase == "uploaded_audio"

Uploads == { <<"talk", ".mp3">>, <<"memo", ".wav">> }
CliPaths == { <<"in", "talk", ".mp3">>, <<"in", "talk", ".wav">> }
Transcripts == { <<>>, RoundTripSegments }

\* os.path.basename, os.path.splitext(...)[0]
Basename(path) == <<path[2], path[3]>>
BaseName(filename) == filename[1]

generate_summary_Propagate(gemini_fails) ==
  [raises |-> gemini_fails, text |-> LlmSummary]

\* try: ... return response.text / except Exception: return the fallback
generate_summary(gemini_fails) ==
  [raises |-> FALSE,
   text |-> IF gemini_fails THEN FallbackSummary ELSE LlmSummary]

RECURSIVE TranscriptBody(_, _, _)
TranscriptBody(chs, i, current_minute) ==
  IF i > Len(chs) THEN <<>>
  ELSE LET segment_minute == chs[i].start_time \div SecondsPerMinute
           marker == IF segment_minute # current_minute
                     THEN format_timestamp(chs[i].start_time) ELSE <<>>
       IN  <<[marker |-> marker, text |-> chs[i].text \o <<SP>>]>>
             \o TranscriptBody(chs, i + 1, segment_minute)

create_markdown_report(summ, chs, audio_filename, now) ==
  [title |-> audio_filename,
   generated |-> now,
   source |-> audio_filename,
   duration |-> IF Len(chs) > 0 THEN format_timestamp(chs[Len(chs)].end_time)
                ELSE Unknown,
   summary |-> summ,
   chapter_index |-> [i \in 1..Len(chs) |->
                        [number |-> i, title |-> chs[i].title,
                         start_time |-> format_timestamp(chs[i].start_time),
                         end_time |-> format_timestamp(chs[i].end_time)]],
   transcript |-> TranscriptBody(chs, 1, -1)]

\* outputs/{base_name}_{timestamp}.md, the timestamp to the second
OutputPath(filename, now) == <<BaseName(filename), now>>

TryCovers_NotLoad(step) ==
  step \in {"transcribe", "chapters", "summary", "report", "save"}

\* the steps inside the try block of process_audio (lines 185-220)
TryCovers(step) ==
  step \in {"load", "transcribe", "chapters", "summary", "report", "save"}

envvars == <<clock>>
fsvars == <<outputs, writes>>
histvars == <<runs, returned>>
callvars == <<caller, audio_path, path_exists>>
locals == <<p_segments, p_chapters, summary, gemini_raised, report, output_path>>
ctl == <<ppc, exc, result>>
hvars == <<audio_file, hpc, handler_result, notifications>>

IdlePipeline ==
  /\ clock = 0
  /\ outputs = <<>>
  /\ writes = <<>>
  /\ runs = 0
  /\ returned = <<>>
  /\ caller = "none"
  /\ audio_path = None
  /\ path_exists = FALSE
  /\ ppc = "idle"
  /\ exc = "none"
  /\ p_segments = <<>>
  /\ p_chapters = <<>>
  /\ summary = ""
  /\ gemini_raised = FALSE
  /\ report = None
  /\ output_path = None
  /\ result = None
  /\ audio_file = None
  /\ hpc = "idle"
  /\ handler_result = <<>>
  /\ notifications = <<>>

FreshLocals ==
  /\ p_segments' = <<>>
  /\ p_chapters' = <<>>
  /\ summary' = ""
  /\ gemini_raised' = FALSE
  /\ report' = None
  /\ output_path' = None

\* an exception raised by a step of process_audio
Fail(step) ==
  /\ exc' = step
  /\ IF TryCovers(step)
     THEN ppc' = "returned" /\ result' = None
     ELSE ppc' = "raised" /\ result' = result

Goto(next) ==
  /\ ppc' = next
  /\ UNCHANGED <<exc, result>>

\* the wall clock read by datetime.now() advances on its own
Tick ==
  /\ clock < MaxClock
  /\ clock' = clock + 1
  /\ UNCHANGED <<fsvars, histvars, callvars, locals, ctl, hvars>>

\* python pipeline.py <audio_file_path>
StartCli ==
  /\ ppc = "idle" /\ hpc = "idle"
  /\ runs < MaxRuns
  /\ \E path \in CliPaths : \E ex \in BOOLEAN :
       /\ audio_path' = path
       /\ path_exists' = ex
  /\ caller' = "cli"
  /\ runs' = runs + 1
  /\ ppc' = "check" /\ exc' = "none" /\ result' = None
  /\ FreshLocals
  /\ UNCHANGED <<envvars, fsvars, returned, hvars>>

\* if not os.path.exists(audio_path): return None
CheckExists ==
  /\ ppc = "check"
  /\ IF path_exists
     THEN Goto("load")
     ELSE ppc' = "returned" /\ result' = None /\ exc' = "not_found"
  /\ UNCHANGED <<envvars, fsvars, histvars, callvars, locals, hvars>>

\* model = load_whisper_model()
LoadModel ==
  /\ ppc = "load"
  /\ \E ok \in BOOLEAN : IF ok THEN Goto("transcribe") ELSE Fail("load")
  /\ UNCHANGED <<envvars, fsvars, histvars, callvars, locals, hvars>>

\* transcript, segments = transcribe_audio(audio_path, model)
Transcribe ==
  /\ ppc = "transcribe"
  /\ \/ /\ Fail("transcribe")
        /\ UNCHANGED p_segments
     \/ /\ p_segments' \in Transcripts
        /\ Goto("chapters")
  /\ UNCHANGED <<envvars, fsvars, histvars, callvars, hvars,
                 p_chapters, summary, gemini_raised, report, output_path>>

\* chapters = generate_chapters(segments)
Chapters ==
  /\ ppc = "chapters"
  /\ p_chapters' = generate_chapters(p_segments, DefaultMaxChapters)
  /\ Goto("summary")
  /\ UNCHANGED <<envvars, fsvars, histvars, callvars, hvars,
                 p_segments, summary, gemini_raised, report, output_path>>

\* summary = generate_summary(transcript)
Summarize ==
  /\ ppc = "summary"
  /\ \E gemini_fails \in BOOLEAN :
       LET o == generate_summary(gemini_fails)
       IN  /\ gemini_raised' = gemini_fails
           /\ IF o.raises
              THEN Fail("summary") /\ UNCHANGED summary
              ELSE Goto("report") /\ summary' = o.text
  /\ UNCHANGED <<envvars, fsvars, histvars, callvars, hvars,
                 p_segments, p_chapters, report, output_path>>

\* report = create_markdown_report(transcript, summary, chapters, audio_filename)
CreateReport ==
  /\ ppc = "report"
  /\ report' = <<create_markdown_report(summary, p_chapters,
                                        Basename(audio_path), clock)>>
  /\ Goto("save")
  /\ UNCHANGED <<envvars, fsvars, histvars, callvars, hvars,
                 p_segments, p_chapters, summary, gemini_raised, output_path>>

\* lines 206-220: makedirs, the output name, open/write, return output_path
SaveReport ==
  /\ ppc = "save"
  /\ LET path == OutputPath(Basename(audio_path), clock)
     IN  \/ /\ outputs' = (path :> report) @@ outputs
            /\ writes' = Append(writes, [run |-> runs, path |-> path])
            /\ output_path' = path
            /\ ppc' = "returned" /\ result' = path /\ UNCHANGED exc
         \/ /\ Fail("save")
            /\ UNCHANGED <<outputs, writes, output_path>>
         \/ /\ outputs' = (path :> <<>>) @@ outputs
            /\ writes' = Append(writes, [run |-> runs, path |-> path])
            /\ output_path' = path
            /\ Fail("save")
  /\ UNCHANGED <<envvars, histvars, callvars, hvars,
                 p_segments, p_chapters, summary, gemini_raised, report>>

\* process_audio returns to the command line
ReturnToCli ==
  /\ ppc \in {"returned", "raised"}
  /\ caller = "cli"
  /\ returned' = IF ppc = "returned" THEN Append(returned, result) ELSE returned
  /\ ppc' = "idle"
  /\ caller' = "none"
  /\ UNCHANGED <<envvars, fsvars, runs, audio_path, path_exists, locals,
                 exc, result, hvars>>

\* process_btn.click(fn=handle_process, inputs=[audio_input], ...)
Click ==
  /\ ppc = "idle" /\ hpc = "idle"
  /\ runs < MaxRuns
  /\ audio_file' \in {None} \cup Uploads
  /\ hpc' = "called"
  /\ handler_result' = <<>>
  /\ notifications' = <<>>
  /\ runs' = runs + 1
  /\ UNCHANGED <<envvars, fsvars, returned, callvars, locals, ctl>>

\* handle_process is a generator: its return statement ends the iteration,
\* the returned tuple travels in StopIteration and is not yielded
HandleNoFile ==
  /\ hpc = "called"
  /\ audio_file = None
  /\ handler_result' = <<None, "upload_first", None>>
  /\ hpc' = "finished"
  /\ UNCHANGED <<envvars, fsvars, histvars, callvars, locals, ctl,
                 audio_file, notifications>>

\* yield None, "Processing your audio...", "", gr.update(visible=False)
YieldProcessing ==
  /\ hpc = "called"
  /\ audio_file # None
  /\ notifications' = Append(notifications, "processing")
  /\ hpc' = "yielded"
  /\ UNCHANGED <<envvars, fsvars, histvars, callvars, locals, ctl,
                 audio_file, handler_result>>

\* process_audio_file lines 18-27: mkdtemp, copy2, the call of process_audio
CopyUpload ==
  /\ hpc = "yielded"
  /\ \/ /\ audio_path' = <<"tmp", TempBase, audio_file[2]>>
        /\ path_exists' = TRUE
        /\ caller' = "form"
        /\ ppc' = "check" /\ exc' = "none" /\ result' = None
        /\ FreshLocals
        /\ hpc' = "in_pipeline"
        /\ UNCHANGED handler_result
     \/ /\ handler_result' = <<None, "error", None>>
        /\ hpc' = "got_result"
        /\ UNCHANGED <<callvars, locals, ctl>>
  /\ UNCHANGED <<envvars, fsvars, histvars, audio_file, notifications>>

\* process_audio_file lines 29-45: the three return statements
AfterPipeline ==
  /\ hpc = "in_pipeline"
  /\ ppc \in {"returned", "raised"}
  /\ caller = "form"
  /\ returned' = IF ppc = "returned" THEN Append(returned, result) ELSE returned
  /\ handler_result' =
       IF ppc = "raised" THEN <<None, "error", None>>
       ELSE IF result # None /\ result \in DOMAIN outputs
            THEN <<result, "success", outputs[result]>>
            ELSE <<None, "failed", None>>
  /\ ppc' = "idle"
  /\ caller' = "none"
  /\ hpc' = "got_result"
  /\ UNCHANGED <<envvars, fsvars, runs, audio_path, path_exists, locals,
                 exc, result, audio_file, notifications>>

\* the second yield of handle_process, in either branch
YieldTerminal ==
  /\ hpc = "got_result"
  /\ notifications' = Append(notifications, handler_result[2])
  /\ hpc' = "finished"
  /\ UNCHANGED <<envvars, fsvars, histvars, callvars, locals, ctl,
                 audio_file, handler_result>>

\* the generator is exhausted; the form accepts the next click
HandlerDone ==
  /\ hpc = "finished"
  /\ hpc' = "idle"
  /\ UNCHANGED <<envvars, fsvars, histvars, callvars, locals, ctl,
                 audio_file, handler_result, notifications>>

NextPipeline ==
  \/ (Tick /\ UNCHANGED <<cvars, fvars>>)
  \/ (StartCli /\ UNCHANGED <<cvars, fvars>>)
  \/ (CheckExists /\ UNCHANGED <<cvars, fvars>>)
  \/ (LoadModel /\ UNCHANGED <<cvars, fvars>>)
  \/ (Transcribe /\ UNCHANGED <<cvars, fvars>>)
  \/ (Chapters /\ UNCHANGED <<cvars, fvars>>)
  \/ (Summarize /\ UNCHANGED <<cvars, fvars>>)
  \/ (CreateReport /\ UNCHANGED <<cvars, fvars>>)
  \/ (SaveReport /\ UNCHANGED <<cvars, fvars>>)
  \/ (ReturnToCli /\ UNCHANGED <<cvars, fvars>>)
  \/ (Click /\ UNCHANGED <<cvars, fvars>>)
  \/ (HandleNoFile /\ UNCHANGED <<cvars, fvars>>)
  \/ (YieldProcessing /\ UNCHANGED <<cvars, fvars>>)
  \/ (CopyUpload /\ UNCHANGED <<cvars, fvars>>)
  \/ (AfterPipeline /\ UNCHANGED <<cvars, fvars>>)
  \/ (YieldTerminal /\ UNCHANGED <<cvars, fvars>>)
  \/ (HandlerDone /\ UNCHANGED <<cvars, fvars>>)

\* if not segments: return []
ReturnEmpty ==
  /\ gpc = "entry"
  /\ Len(segments) = 0
  /\ gpc' = "returned"
  /\ UNCHANGED <<segments, max_chapters, idx, chapters, current_chapter_start,
                 chapter_text>>

\* lines 61-66: the locals are set up and the loop is entered
EnterLoop ==
  /\ gpc = "entry"
  /\ Len(segments) > 0
  /\ gpc' = "loop"
  /\ chapters' = <<>>
  /\ current_chapter_start' = 0
  /\ chapter_text' = <<>>
  /\ UNCHANGED <<segments, max_chapters, idx>>

\* one iteration of: for i, segment in enumerate(segments)
WalkSegment ==
  /\ gpc = "loop"
  /\ idx < Len(segments)
  /\ LET w == LoopBody([chapters |-> chapters,
                        current_chapter_start |-> current_chapter_start,
                        chapter_text |-> chapter_text],
                       segments, max_chapters, idx + 1)
     IN  /\ chapters' = w.chapters
         /\ current_chapter_start' = w.current_chapter_start
         /\ chapter_text' = w.chapter_text
  /\ idx' = idx + 1
  /\ UNCHANGED <<segments, max_chapters, gpc>>

\* return chapters
ReturnChapters ==
  /\ gpc = "loop"
  /\ idx = Len(segments)
  /\ gpc' = "returned"
  /\ UNCHANGED <<segments, max_chapters, idx, chapters, current_chapter_start,
                 chapter_text>>

NextChapters ==
  \/ (ReturnEmpty /\ UNCHANGED <<fvars, pvars>>)
  \/ (EnterLoop /\ UNCHANGED <<fvars, pvars>>)
  \/ (WalkSegment /\ UNCHANGED <<fvars, pvars>>)
  \/ (ReturnChapters /\ UNCHANGED <<fvars, pvars>>)

InitChapters == ChapterInputs /\ IdleFormat /\ IdlePipeline

SpecChapters == InitChapters /\ [][NextChapters]_vars

FormatInputs ==
  /\ fmt_seconds \in 0..MaxSeconds
  /\ fmt_result = <<>>

FormatTimestamp ==
  /\ fmt_result = <<>>
  /\ fmt_result' = format_timestamp(fmt_seconds)
  /\ UNCHANGED <<fmt_seconds, cvars, pvars>>

NextFormat == FormatTimestamp

InitFormat == IdleChapters /\ FormatInputs /\ IdlePipeline

SpecFormat == InitFormat /\ [][NextFormat]_vars

InitPipeline == IdleChapters /\ IdleFormat /\ IdlePipeline

SpecPipeline == InitPipeline /\ [][NextPipeline]_vars

\* ------------------------------------------------------------------ claims
Last(s) == s[Len(s)]

\* C1: for a non-empty ordered segment list and max_chapters >= 1 the returned
\* chapters cover [0, last segment's end] without gaps: the first chapter
\* starts at 0, each chapter ends where the next one starts, and the last
\* chapter ends at the end of the last segment.
C1_Coverage ==
  (gpc = "returned" /\ Len(segments) > 0) =>
    /\ Len(chapters) >= 1
    /\ chapters[1].start_time = 0
    /\ \A i \in 1..(Len(chapters) - 1) :
         chapters[i].end_time = chapters[i + 1].start_time
    /\ Last(chapters).end_time = Last(segments).end

C1_Witness ==
  /\ gpc = "returned"
  /\ Len(chapters) >= 2
  /\ chapters[1].end_time > 0
  /\ chapters[2].end_time > chapters[1].end_time

\* C2: for a non-empty segment list the number of chapters never exceeds
\* max_chapters at any point of the walk, and the returned list has at least
\* one chapter.
C2_Count ==
  Len(segments) > 0 =>
    /\ Len(chapters) <= max_chapters
    /\ (gpc = "returned" => Len(chapters) >= 1)

C2_Witness ==
  /\ gpc = "returned"
  /\ Len(segments) > max_chapters
  /\ Len(chapters) = max_chapters
  /\ max_chapters >= 2

WordCount(text) == Len(Split(text))

\* C5: a chapter's title ends in "..." if its text has more than 6 words and
\* has no added "..." if the text has 6 words or fewer (exactly 6 included);
\* the title starts with the first min(6, word count) words of the text.
C5_TitleEllipsis ==
  \A c \in 1..Len(chapters) :
    LET words == Split(chapters[c].text)
        shown == IF Len(words) < 6 THEN Len(words) ELSE 6
        head == Join(SubSeq(words, 1, shown))
        title == chapters[c].title
    IN  /\ SubSeq(title, 1, Len(head)) = head
        /\ (Len(words) > 6 => title = head \o <<ELLIPSIS>>)
        /\ (Len(words) <= 6 => title = head)

\* C8: at segment i the walk closes the current chapter if and only if
\* (segment i's end >= current_chapter_start + last end / max_chapters and
\* fewer than max_chapters - 1 chapters were emitted) or i is the last
\* segment; after closing, the next chapter starts at segment i's end; the
\* three segments 0-10, 10-20, 20-30 with max_chapters = 8 give 3 chapters.
C8_StepRule ==
  (gpc = "loop" /\ idx < Len(segments)) =>
    LET i == idx + 1
        seg_end == segments[i].end
        due == \/ /\ seg_end * max_chapters
                       >= current_chapter_start * max_chapters
                            + Last(segments).end
                  /\ Len(chapters) < max_chapters - 1
               \/ i = Len(segments)
    IN  /\ due => /\ Len(chapters') = Len(chapters) + 1
                  /\ SubSeq(chapters', 1, Len(chapters)) = chapters
                  /\ Last(chapters').end_time = seg_end
                  /\ current_chapter_start' = seg_end
        /\ ~due => /\ chapters' = chapters
                   /\ current_chapter_start' = current_chapter_start

C8_CloseRule ==
  /\ [][C8_StepRule]_vars
  /\ [](  (gpc = "returned" /\ segments = RoundTripSegments
             /\ max_chapters = DefaultMaxChapters)
          => Len(chapters) = 3)

C8_Witness ==
  /\ gpc = "returned"
  /\ segments = RoundTripSegments
  /\ max_chapters = DefaultMaxChapters
  /\ Len(chapters) = 3
  /\ chapters[2].start_time = 10
  /\ chapters[2].end_time = 20

RECURSIVE RunText(_, _)
RunText(lo, hi) ==
  IF lo > hi THEN <<>>
  ELSE segments[lo].text \o <<SP>> \o RunText(lo + 1, hi)

Kth(cuts, j) == CHOOSE c \in cuts : Cardinality({d \in cuts : d <= c}) = j

\* C9: the returned chapters partition the segment list into contiguous
\* non-empty runs in order: there are cut points c1 < c2 < ... < ck = n such
\* that chapter j is exactly the text and the time range of the segments
\* after c(j-1) up to cj, and the running buffer is empty after the walk.
C9_Partition ==
  (gpc = "returned" /\ Len(segments) > 0) =>
    /\ chapter_text = <<>>
    /\ \E cuts \in SUBSET (1..Len(segments)) :
         /\ Len(segments) \in cuts
         /\ Cardinality(cuts) = Len(chapters)
         /\ \A j \in 1..Len(chapters) :
              LET hi == Kth(cuts, j)
                  lo == IF j = 1 THEN 1 ELSE Kth(cuts, j - 1) + 1
              IN  /\ chapters[j].text = Strip(RunText(lo, hi))
                  /\ chapters[j].end_time = segments[hi].end
                  /\ chapters[j].start_time =
                       IF j = 1 THEN 0 ELSE segments[lo - 1].end

C9_Witness ==
  /\ gpc = "returned"
  /\ Len(chapters) = 2
  /\ Len(segments) = 3
  /\ \A i \in 1..3 : WordCount(segments[i].text) >= 1
  /\ WordCount(chapters[1].text) + WordCount(chapters[2].text)
       = WordCount(segments[1].text) + WordCount(segments[2].text)
           + WordCount(segments[3].text)

DigitOf(c) == CHOOSE d \in 0..9 : DigitChars[d + 1] = c

RECURSIVE DigitValue(_)
DigitValue(ds) ==
  IF Len(ds) = 0 THEN 0
  ELSE 10 * DigitValue(SubSeq(ds, 1, Len(ds) - 1)) + DigitOf(Last(ds))

IsDigits(ds) == \A k \in 1..Len(ds) : \E d \in 0..9 : DigitChars[d + 1] = ds[k]

\* C6: for a non-negative whole number of seconds s, format_timestamp(s) is
\* MM:SS with MM = floor(s / 60) in at least two digits (no hour part) and
\* SS = s mod 60 in exactly two digits, 00..59; format(0) = "00:00",
\* format(65) = "01:05", format(3600) = "60:00".
C6_Format ==
  fmt_result # <<>> =>
    LET r == fmt_result
        n == Len(r)
        mm == SubSeq(r, 1, n - 3)
        ss == SubSeq(r, n - 1, n)
    IN  /\ n >= 5
        /\ r[n - 2] = ":"
        /\ IsDigits(mm) /\ IsDigits(ss)
        /\ DigitValue(mm) = fmt_seconds \div 60
        /\ DigitValue(ss) = fmt_seconds % 60
        /\ DigitValue(ss) \in 0..59
        /\ (Len(mm) = 2 \/ mm[1] # "0")
        /\ (fmt_seconds = 0 => r = <<"0", "0", ":", "0", "0">>)
        /\ (fmt_seconds = 65 => r = <<"0", "1", ":", "0", "5">>)
        /\ (fmt_seconds = 3600 => r = <<"6", "0", ":", "0", "0">>)

C6_Witness ==
  /\ fmt_seconds = 3600
  /\ fmt_result = <<"6", "0", ":", "0", "0">>

AtReturn == ppc \in {"returned", "raised"}

WroteInThisRun == \E k \in DOMAIN writes : writes[k].run = runs

\* C3: when the input path does not exist, or the model load or the
\* transcription raises, process_audio returns None, raises nothing to its
\* caller, and this run has created no output file.
C3_FailureWritesNothing ==
  (AtReturn /\ exc \in {"not_found", "load", "transcribe"}) =>
    /\ ppc = "returned"
    /\ result = None
    /\ ~WroteInThisRun

C3_Witness ==
  /\ ppc = "returned"
  /\ exc = "transcribe"
  /\ result = None
  /\ runs = 2
  /\ Len(writes) = 1
  /\ writes[1].run = 1

\* C4 (as stated): whenever the input exists, transcription succeeds and the
\* summarizer raises, process_audio returns an output path whose written
\* report carries the fallback summary.
C4_AlwaysReturnsPath ==
  (AtReturn /\ gemini_raised) =>
    /\ ppc = "returned"
    /\ result # None
    /\ result \in DOMAIN outputs
    /\ outputs[result] # None
    /\ outputs[result][1].summary = FallbackSummary

\* C4 (amended): whenever the input exists, transcription succeeds and the
\* summarizer raises, process_audio still builds the report, with the fallback
\* string as its summary, and reaches the save step; it returns the path of
\* that written report unless the save step itself (directory creation, open
\* or write) raises, and then it returns None.
C4_SummaryFailureDoesNotAbort ==
  (AtReturn /\ gemini_raised) =>
    /\ ppc = "returned"
    /\ path_exists
    /\ report # None
    /\ report[1].summary = FallbackSummary
    /\ exc \in {"none", "save"}
    /\ (exc = "save" => result = None)
    /\ (exc = "none" => /\ result # None
                        /\ result \in DOMAIN outputs
                        /\ outputs[result] = report
                        /\ WroteInThisRun)

C4_Witness ==
  /\ ppc = "returned"
  /\ gemini_raised
  /\ exc = "none"
  /\ result # None
  /\ result \in DOMAIN outputs
  /\ outputs[result] # None
  /\ outputs[result][1].summary = FallbackSummary

\* C7: no two successful invocations return (write) the same output path.
C7_UniqueOutputs ==
  \A i, j \in DOMAIN returned :
    (i # j /\ returned[i] # None /\ returned[j] # None)
      => returned[i] # returned[j]

\* C10: every invocation of handle_process ends with a terminal status as
\* the caller's last notification: "upload first" when no file was given;
\* otherwise "processing" first, sent before any pipeline work, and then
\* exactly one terminal success or failure status.
C10_TerminalStatus ==
  /\ hpc = "yielded" => (ppc = "idle" /\ notifications = <<"processing">>)
  /\ hpc = "finished" =>
       IF audio_file = None
       THEN notifications = <<"upload_first">>
       ELSE /\ Len(notifications) = 2
            /\ notifications[1] = "processing"
            /\ notifications[2] \in {"success", "failed", "error"}

====
